---- MODULE Spec2Model ----
(***************************************************************************)
(* Workflow Usage Dashboard (src/app.py).                                  *)
(*                                                                         *)
(* app.py is a Streamlit script: every interaction with a widget runs the  *)
(* whole script again, top to bottom, with the widgets returning the       *)
(* values the user last gave them.  One action of this module is one run   *)
(* of the script: load, normalise, filter, KPIs, charts and table.         *)
(*                                                                         *)
(* Time.  A timestamp is day * TicksPerDay + tick.  Tick Midnight is       *)
(* 00:00:00, tick LastMicrosecond is 23:59:59.999999 (datetime.max.time()) *)
(* and the ticks after it are the instants of the same day that pandas'    *)
(* nanosecond timestamps can hold past the last microsecond.               *)
(*                                                                         *)
(* Numbers.  Minutes are exact rationals <<numerator, denominator>>.       *)
(* Nullable values are records: [na |-> TRUE] or [na |-> FALSE, val |-> v].*)
(***************************************************************************)
EXTENDS Integers, Sequences, FiniteSets, TLC

\* ------------------------------------------------------------------------
\* Bounds of the model
\* ------------------------------------------------------------------------
MaxRows == 3

TicksPerDay == 3

\* ------------------------------------------------------------------------
\* Program constants
\* ------------------------------------------------------------------------
CANDIDATE_PATHS == << "syfan_workflows.csv", "/mnt/data/syfan_workflows.csv" >>

required == << "timestamp", "workflow", "branch" >>

DisplayAllowList ==
    << "timestamp", "workflow", "branch", "channel", "type", "run_id",
       "duration_minutes", "subject", "snippet" >>

DefaultLookbackDays == 213

SecondsPerMinute == 60

\* datetime.min.time()
Midnight == 0

\* datetime.max.time(): the last microsecond of the day
LastMicrosecond == TicksPerDay - 2

\* ------------------------------------------------------------------------
\* Values
\* ------------------------------------------------------------------------
\* a missing text cell (pandas NaN in an object column)
NA == "<NA>"

\* a missing number / timestamp (NaN, NaT)
NaN == [na |-> TRUE]

Num(v) == [na |-> FALSE, val |-> v]

Range(s) == {s[i] : i \in DOMAIN s}

Max2(a, b) == IF a >= b THEN a ELSE b

MaxOf(S) == CHOOSE x \in S : \A y \in S : y <= x

MinOf(S) == CHOOSE x \in S : \A y \in S : x <= y

Abs(x) == IF x < 0 THEN -x ELSE x

\* exact rationals, kept in lowest terms
RECURSIVE Gcd(_, _)
Gcd(a, b) == IF b = 0 THEN a ELSE Gcd(b, a % b)

Reduce(a) ==
    LET g == Gcd(Abs(a[1]), a[2]) IN << a[1] \div g, a[2] \div g >>

RatAdd(a, b) == Reduce(<< a[1] * b[2] + b[1] * a[2], a[2] * b[2] >>)

RatEq(a, b) == a[1] * b[2] = b[1] * a[2]

\* round-half-to-even of n/d to an integer (n >= 0, d > 0): what numpy's
\* round and Python's format do with an exactly representable tie
RoundHalfEven(n, d) ==
    LET q == n \div d
        r == n % d
    IN  IF 2 * r < d THEN q
        ELSE IF 2 * r > d THEN q + 1
        ELSE IF q % 2 = 0 THEN q ELSE q + 1

RECURSIVE SumMinutes(_)
SumMinutes(s) ==
    IF s = << >> THEN << 0, 1 >>
    ELSE IF Head(s).duration_minutes.na THEN SumMinutes(Tail(s))
    ELSE RatAdd(Head(s).duration_minutes.val, SumMinutes(Tail(s)))

\* ------------------------------------------------------------------------
\* The CSV file: raw header names and raw cells
\* ------------------------------------------------------------------------
RawColumns == { " Timestamp", "WORKFLOW", "branch ", "Duration", "Run_ID" }

\* c.strip().lower() on the header names of the model
StripLower(c) ==
    CASE c = " Timestamp" -> "timestamp"
      [] c = "WORKFLOW"   -> "workflow"
      [] c = "branch "    -> "branch"
      [] c = "Duration"   -> "duration"
      [] c = "Run_ID"     -> "run_id"
      [] OTHER            -> c

Stamp(d, t) == [kind |-> "datetime", day |-> d, tick |-> t]

Text(s) == [kind |-> "text", text |-> s]

RawRow(ts, wf, br, dur) ==
    [timestamp |-> ts, workflow |-> wf, branch |-> br, duration |-> dur]

\* the rows a file of the model is made of
SampleRows ==
    { RawRow(Stamp(0, Midnight), "A", "X", "120"),
      RawRow(Stamp(0, Midnight), "B", "Y", ""),
      RawRow(Text("not a date"), "A", "X", "60"),
      RawRow(Stamp(2, LastMicrosecond), "B", "X", "abc"),
      RawRow(Stamp(2, LastMicrosecond + 1), "A", "Y", "90"),
      RawRow(Stamp(1, Midnight), "", "Z", "30"),
      RawRow(Stamp(1, Midnight), "B", "", "45") }

SeqsUpTo(S, n) == UNION { [1..k -> S] : k \in 0..n }

\* read_csv: an empty text cell is read as missing
ReadText(cell) == IF cell = "" THEN NA ELSE cell

\* pd.to_datetime(errors="coerce")
ToDatetime(cell) ==
    IF cell.kind = "datetime"
    THEN Num(cell.day * TicksPerDay + cell.tick)
    ELSE NaN

\* pd.to_numeric(errors="coerce") on the duration cells of the model
ToNumeric(cell) ==
    CASE cell = "30"  -> Num(30)
      [] cell = "45"  -> Num(45)
      [] cell = "60"  -> Num(60)
      [] cell = "90"  -> Num(90)
      [] cell = "120" -> Num(120)
      [] OTHER        -> NaN

DateOf(t) == t \div TicksPerDay

TickOf(t) == t % TicksPerDay

\* ------------------------------------------------------------------------
\* Data loading (no uploader)
\* ------------------------------------------------------------------------
\* for p in CANDIDATE_PATHS: the first path that exists and that read_csv
\* reads without an exception; 0 when there is none (df is None)
RECURSIVE FirstLoadable(_, _)
FirstLoadable(d, i) ==
    IF i > Len(CANDIDATE_PATHS) THEN 0
    ELSE IF d[i] = "ok" THEN i
    ELSE FirstLoadable(d, i + 1)

\* df.columns = [c.strip().lower() for c in df.columns]
NormalizeColumns(header) == { StripLower(c) : c \in header }

\* faulty variant: branch is not among the required columns
missingForgetsBranch(cols) ==
    SelectSeq(<< "timestamp", "workflow" >>, LAMBDA c : c \notin cols)

\* missing = [c for c in required if c not in df.columns]
missing(cols) == SelectSeq(required, LAMBDA c : c \notin cols)

\* faulty variant: dropna() without subset drops every row with a missing value
DropAnyNa(rows) ==
    SelectSeq(rows, LAMBDA r :
        ~r.timestamp.na /\ r.workflow # NA /\ r.branch # NA)

\* df = df.dropna(subset=["timestamp"]).copy()
DropNaT(rows) == SelectSeq(rows, LAMBDA r : ~r.timestamp.na)

\* df["duration"] = pd.to_numeric(df["duration"], errors="coerce"); NaN
\* stands for the column a file without it does not have
Duration(cols, cell) ==
    IF "duration" \in cols THEN ToNumeric(cell) ELSE NaN

\* faulty variant: without a duration column the minutes are 0, not NaN
DurationMinutesZero(cols, cell) ==
    IF "duration" \in cols
    THEN LET d == ToNumeric(cell)
         IN  IF d.na THEN NaN ELSE Num(<< d.val, SecondsPerMinute >>)
    ELSE Num(<< 0, 1 >>)

\* df["duration_minutes"] = df["duration"] / 60.0, else np.nan
DurationMinutes(cols, cell) ==
    IF "duration" \in cols
    THEN LET d == ToNumeric(cell)
         IN  IF d.na THEN NaN ELSE Num(<< d.val, SecondsPerMinute >>)
    ELSE NaN

\* the record set: parse timestamp, drop the rows without one, add
\* duration_minutes
LoadRecords(cols, rows) ==
    DropNaT([i \in DOMAIN rows |->
        [timestamp        |-> ToDatetime(rows[i].timestamp),
         workflow         |-> ReadText(rows[i].workflow),
         branch           |-> ReadText(rows[i].branch),
         duration         |-> Duration(cols, rows[i].duration),
         duration_minutes |-> DurationMinutes(cols, rows[i].duration)]])

\* ------------------------------------------------------------------------
\* Sidebar filters
\* ------------------------------------------------------------------------
\* workflows = sorted(df["workflow"].dropna().unique().tolist())
WorkflowOptions(d) == { r.workflow : r \in Range(d) } \ {NA}

min_dt(d) == MinOf({ r.timestamp.val : r \in Range(d) })

max_dt(d) == MaxOf({ r.timestamp.val : r \in Range(d) })

\* default_start = max_dt - timedelta(days=213), as a date
default_start(d) == DateOf(max_dt(d)) - DefaultLookbackDays

\* the value the date input shows before the user touches it: the last
\* DefaultLookbackDays days, kept within [min_value, max_value]
DefaultDateRange(d) ==
    << Max2(DateOf(min_dt(d)), default_start(d)), DateOf(max_dt(d)) >>

\* the ranges the date input can return: min_value <= start <= end <= max_value
\* (none while there is no record set to take the bounds from)
DateRanges(d) ==
    IF d = << >> THEN {}
    ELSE { rg \in (DateOf(min_dt(d))..DateOf(max_dt(d))) \X
                  (DateOf(min_dt(d))..DateOf(max_dt(d))) : rg[1] <= rg[2] }

\* datetime.combine(start_date, datetime.min.time())
start_dt(start) == start * TicksPerDay + Midnight

\* datetime.combine(end_date, datetime.max.time())
end_dt(end) == end * TicksPerDay + LastMicrosecond

\* faulty variant: isin is applied to an empty selection too (it then matches nothing)
maskMatchNothing(r, sel, start, end) ==
    /\ r.timestamp.val >= start_dt(start)
    /\ r.timestamp.val <= end_dt(end)
    /\ r.workflow \in sel

\* faulty variant: the end bound is the midnight that opens the end date
maskEndMidnight(r, sel, start, end) ==
    /\ r.timestamp.val >= start_dt(start)
    /\ r.timestamp.val <= start_dt(end)
    /\ (sel # {} => r.workflow \in sel)

\* mask = (ts >= start_dt) & (ts <= end_dt); if selected_workflows: mask &= isin
mask(r, sel, start, end) ==
    /\ r.timestamp.val >= start_dt(start)
    /\ r.timestamp.val <= end_dt(end)
    /\ (sel # {} => r.workflow \in sel)

\* filtered = df.loc[mask].copy()
Filter(d, sel, start, end) ==
    SelectSeq(d, LAMBDA r : mask(r, sel, start, end))

\* ------------------------------------------------------------------------
\* KPIs (each row is a run)
\* ------------------------------------------------------------------------
TotalRuns(f) == Len(f)

\* filtered["duration_minutes"].notna().any()
HasAnyDuration(f) == \E i \in DOMAIN f : ~f[i].duration_minutes.na

\* the denominator of .mean(): the rows with a duration
DurationRows(f) == SelectSeq(f, LAMBDA r : ~r.duration_minutes.na)

TotalMinutes(f) ==
    IF HasAnyDuration(f) THEN Num(SumMinutes(f)) ELSE NaN

\* faulty variant: the mean is taken over all rows, also those without a duration
AvgMinutesOverAllRows(f) ==
    IF HasAnyDuration(f)
    THEN LET s == SumMinutes(DurationRows(f))
         IN  Num(<< s[1], s[2] * Len(f) >>)
    ELSE NaN

AvgMinutes(f) ==
    IF HasAnyDuration(f)
    THEN LET s == SumMinutes(DurationRows(f))
         IN  Num(<< s[1], s[2] * Len(DurationRows(f)) >>)
    ELSE NaN

\* nunique() does not count missing values
ActiveWorkflows(f) ==
    IF f = << >> THEN 0
    ELSE Cardinality({ r.workflow : r \in Range(f) } \ {NA})

ActiveBranches(f) ==
    IF f = << >> THEN 0
    ELSE Cardinality({ r.branch : r \in Range(f) } \ {NA})

\* f"{x:,.<places>f} min" if not np.isnan(x) else "N/A"; digits is the
\* value in units of 10^-places
MinutesMetric(x, scale) ==
    IF x.na THEN [label |-> "N/A"]
    ELSE [label |-> "min", digits |-> RoundHalfEven(x.val[1] * scale, x.val[2])]

CountMetric(n) == [label |-> "count", digits |-> n]

Metrics(f) ==
    [total_runs       |-> CountMetric(TotalRuns(f)),
     total_minutes    |-> MinutesMetric(TotalMinutes(f), 10),
     avg_minutes      |-> MinutesMetric(AvgMinutes(f), 100),
     active_workflows |-> CountMetric(ActiveWorkflows(f)),
     active_branches  |-> CountMetric(ActiveBranches(f))]

\* ------------------------------------------------------------------------
\* Charts
\* ------------------------------------------------------------------------
\* the sequences that list every element of S once
RECURSIVE Orderings(_)
Orderings(S) ==
    IF S = {} THEN { << >> }
    ELSE UNION { { << x >> \o p : p \in Orderings(S \ {x}) } : x \in S }

\* filtered.groupby("branch").size(): one group per branch, rows without a
\* branch are in no group
BranchGroups(f) ==
    { [branch |-> b,
       runs   |-> Len(SelectSeq(f, LAMBDA r : r.branch = b))] :
      b \in { r.branch : r \in Range(f) } \ {NA} }

\* .sort_values("runs", ascending=False): quicksort, so groups with equal
\* counts come in any order
SortByRunsDescending(groups) ==
    { p \in Orderings(groups) :
        \A i, j \in DOMAIN p : i < j => p[i].runs >= p[j].runs }

RECURSIVE SumRuns(_)
SumRuns(s) == IF s = << >> THEN 0 ELSE Head(s).runs + SumRuns(Tail(s))

\* faulty variant: the share is cut to one decimal, not rounded
PercentageTruncated(runs, total) == << (runs * 1000) \div total, 10 >>

\* (runs / runs.sum() * 100).round(1), as a rational with denominator 10
Percentage(runs, total) == << RoundHalfEven(runs * 1000, total), 10 >>

\* the frames runs_by_branch can be: empty when the chart branch is not
\* taken, without percentages when the counts sum to 0
RunsByBranch(f) ==
    IF f = << >> THEN { << >> }
    ELSE { [i \in DOMAIN g |->
              [branch     |-> g[i].branch,
               runs       |-> g[i].runs,
               percentage |-> Percentage(g[i].runs, SumRuns(g))]] :
           g \in SortByRunsDescending(BranchGroups(f)) }

\* what the pie column shows
PieStatus(f, rb) ==
    IF f = << >> THEN "info_no_data"
    ELSE IF SumRuns(rb) = 0 THEN "warning_no_runs"
    ELSE "pie"

\* faulty variant: the bins stop one day short of the last timestamp
DailyOpenEnded(f) ==
    IF f = << >> THEN << >>
    ELSE LET first == DateOf(min_dt(f))
             last  == DateOf(max_dt(f))
         IN  [i \in 1..(last - first) |->
                [date |-> first + i - 1,
                 runs |-> Len(SelectSeq(f, LAMBDA r :
                              DateOf(r.timestamp.val) = first + i - 1))]]

\* faulty variant: groupby on the date, so only the days that have rows
DailyGroupBy(f) ==
    LET days  == { DateOf(r.timestamp.val) : r \in Range(f) }
        order == CHOOSE p \in Orderings(days) :
                     \A i, j \in DOMAIN p : i < j => p[i] < p[j]
    IN  [i \in DOMAIN order |->
           [date |-> order[i],
            runs |-> Len(SelectSeq(f, LAMBDA r :
                         DateOf(r.timestamp.val) = order[i]))]]

\* ts.resample("D").size(): one bin per calendar day from the day of the
\* first timestamp to the day of the last, each with its number of rows
Daily(f) ==
    IF f = << >> THEN << >>
    ELSE LET first == DateOf(min_dt(f))
             last  == DateOf(max_dt(f))
         IN  [i \in 1..(last - first + 1) |->
                [date |-> first + i - 1,
                 runs |-> Len(SelectSeq(f, LAMBDA r :
                              DateOf(r.timestamp.val) = first + i - 1))]]

\* ------------------------------------------------------------------------
\* Runs table
\* ------------------------------------------------------------------------
\* display_cols = [c for c in [...] if c in filtered.columns]
DisplayCols(cols) == SelectSeq(DisplayAllowList, LAMBDA c : c \in cols)

\* .dt.strftime("%Y-%m-%d %H:%M:%S"): the date and the clock to the second
Strftime(t) ==
    [date   |-> DateOf(t),
     second |-> IF TickOf(t) >= LastMicrosecond THEN "23:59:59"
                ELSE IF TickOf(t) = Midnight THEN "00:00:00"
                ELSE "12:00:00"]

\* .round(2) on duration_minutes, in hundredths
Round2(x) ==
    IF x.na THEN NaN ELSE Num(<< RoundHalfEven(x.val[1] * 100, x.val[2]), 100 >>)

TableRow(r) ==
    [timestamp        |-> Strftime(r.timestamp.val),
     workflow         |-> r.workflow,
     branch           |-> r.branch,
     duration_minutes |-> Round2(r.duration_minutes)]

\* filtered.sort_values("timestamp", ascending=False): quicksort, so rows
\* with equal timestamps come in any order
TableFrames(f) ==
    { [i \in DOMAIN f |-> TableRow(f[p[i]])] :
      p \in { q \in Orderings(DOMAIN f) :
                \A i, j \in DOMAIN f :
                    i < j => f[q[i]].timestamp.val >= f[q[j]].timestamp.val } }

\* ------------------------------------------------------------------------
\* State
\* ------------------------------------------------------------------------
VARIABLES
    disk,               \* per candidate path: "absent", "unreadable" or "ok"
    csv,                \* the file: [header |-> raw names, rows |-> raw rows]
    pc,                 \* "start", "source_unavailable", "schema_invalid",
                        \* "crashed" or "done": how the last run ended
    error,              \* the st.error of the last run
    used_path,          \* index in CANDIDATE_PATHS, 0 for none
    shown,              \* the elements the last run put on the page
    columns,            \* df.columns
    df,                 \* the record set
    workflows,          \* the options of the workflow multiselect
    selected_workflows,
    start_date,
    end_date,
    filtered,
    total_runs,
    has_any_duration,
    total_minutes,
    avg_minutes,
    active_workflows,
    active_branches,
    metrics,            \* the five st.metric values
    runs_by_branch,
    daily,
    display_cols,
    table_df

inputs == << disk, csv >>

session == << selected_workflows, start_date, end_date >>

outputs ==
    << pc, error, used_path, shown, columns, df, workflows, filtered,
       total_runs, has_any_duration, total_minutes, avg_minutes,
       active_workflows, active_branches, metrics, runs_by_branch, daily,
       display_cols, table_df >>

vars == << inputs, session, outputs >>

NoError == [message |-> "", columns |-> << >>]

\* nothing computed: the variables of the steps a run did not reach
UnreachedResults ==
    /\ start_date' = 0
    /\ end_date' = 0
    /\ filtered' = << >>
    /\ total_runs' = 0
    /\ has_any_duration' = FALSE
    /\ total_minutes' = NaN
    /\ avg_minutes' = NaN
    /\ active_workflows' = 0
    /\ active_branches' = 0
    /\ metrics' = [m \in {} |-> 0]
    /\ runs_by_branch' = << >>
    /\ daily' = << >>
    /\ display_cols' = << >>
    /\ table_df' = << >>

Unreached ==
    /\ workflows' = {}
    /\ selected_workflows' = {}
    /\ UnreachedResults

\* ------------------------------------------------------------------------
\* Initial states: the files on disk, before the first run
\* ------------------------------------------------------------------------
DiskStates == [1..Len(CANDIDATE_PATHS) -> {"absent", "unreadable", "ok"}]

FullHeader == { " Timestamp", "WORKFLOW", "branch ", "Duration", "Run_ID" }

\* no candidate can be loaded
InitUnavailable ==
    /\ disk \in { d \in DiskStates : FirstLoadable(d, 1) = 0 }
    /\ csv = [header |-> {}, rows |-> << >>]

\* a file: the rows of a file without a duration column have no duration
\* cell
File(header, rows) ==
    [header |-> header,
     rows   |-> IF "Duration" \in header THEN rows
                ELSE [i \in DOMAIN rows |-> [rows[i] EXCEPT !.duration = ""]]]

\* any header, any loadable disk, at most one row
InitHeaders ==
    /\ disk \in { d \in DiskStates : FirstLoadable(d, 1) # 0 }
    /\ csv \in { File(h, rs) : h \in SUBSET RawColumns,
                               rs \in SeqsUpTo(SampleRows, 1) }

\* a header with the required columns, with and without duration, and up
\* to MaxRows rows
InitData ==
    /\ disk = << "ok", "absent" >>
    /\ csv \in { File(h, rs) : h \in { FullHeader, FullHeader \ {"Duration"} },
                               rs \in SeqsUpTo(SampleRows, MaxRows) }

Init ==
    /\ \/ InitUnavailable
       \/ InitHeaders
       \/ InitData
    /\ pc = "start"
    /\ error = NoError
    /\ used_path = 0
    /\ shown = {}
    /\ columns = {}
    /\ df = << >>
    /\ workflows = {}
    /\ selected_workflows = {}
    /\ start_date = 0
    /\ end_date = 0
    /\ filtered = << >>
    /\ total_runs = 0
    /\ has_any_duration = FALSE
    /\ total_minutes = NaN
    /\ avg_minutes = NaN
    /\ active_workflows = 0
    /\ active_branches = 0
    /\ metrics = [m \in {} |-> 0]
    /\ runs_by_branch = << >>
    /\ daily = << >>
    /\ display_cols = << >>
    /\ table_df = << >>

\* ------------------------------------------------------------------------
\* One run of the script
\* ------------------------------------------------------------------------
\* df is None: st.error(...); st.stop()
StopSourceUnavailable ==
    /\ pc' = "source_unavailable"
    /\ error' = [message |-> "CSV not found", columns |-> << >>]
    /\ used_path' = 0
    /\ shown' = {"title", "error"}
    /\ columns' = {}
    /\ df' = << >>
    /\ Unreached

\* missing: st.error(f"Missing required column(s): ..."); st.stop()
StopSchemaInvalid(path, cols) ==
    /\ pc' = "schema_invalid"
    /\ error' = [message |-> "Missing required column(s)",
                 columns |-> missing(cols)]
    /\ used_path' = path
    /\ shown' = {"title", "caption", "error"}
    /\ columns' = cols
    /\ df' = << >>
    /\ Unreached

\* no row has a timestamp: min() and max() are NaT and NaT.date() raises
\* while the date input is being built
CrashNoTimestamps(path, cols) ==
    /\ pc' = "crashed"
    /\ error' = [message |-> "ValueError", columns |-> << >>]
    /\ used_path' = path
    /\ shown' = {"title", "caption", "workflow_select", "exception"}
    /\ columns' = cols \cup {"duration_minutes"}
    /\ df' = << >>
    /\ Unreached

\* the span of the data is shorter than the default look-back, so the
\* default start lies before min_value: a date input that checks its
\* default against its bounds raises, one that clamps goes on (Render)
CrashDefaultOutOfRange(path, cols, d, sel) ==
    /\ pc' = "crashed"
    /\ error' = [message |-> "StreamlitAPIException", columns |-> << >>]
    /\ used_path' = path
    /\ shown' = {"title", "caption", "workflow_select", "exception"}
    /\ columns' = cols \cup {"duration_minutes"}
    /\ df' = d
    /\ workflows' = WorkflowOptions(d)
    /\ selected_workflows' = sel
    /\ UnreachedResults

\* faulty variant: the filter is applied in place, df = df.loc[mask]
RecordSetFilteredInPlace(d, f) == f

\* the record set after the filter, KPI, chart and table steps have read it
RecordSetAfterRender(d, f) == d

\* the elements a complete run shows
Page(f, rb) ==
    {"title", "caption", "workflow_select", "date_input", "metrics", "tips"}
    \cup {PieStatus(f, rb)}
    \cup (IF f = << >> THEN {"info_no_rows"} ELSE {"line", "table"})

\* from the filters to the table, with the widgets returning sel and
\* (start, end)
Render(path, cols, d, sel, start, end) ==
    LET f == Filter(d, sel, start, end)
    IN  \E rb \in RunsByBranch(f), tb \in TableFrames(f) :
            /\ pc' = "done"
            /\ error' = NoError
            /\ used_path' = path
            /\ columns' = cols \cup {"duration_minutes"}
            /\ workflows' = WorkflowOptions(d)
            /\ selected_workflows' = sel
            /\ start_date' = start
            /\ end_date' = end
            /\ filtered' = f
            /\ total_runs' = TotalRuns(f)
            /\ has_any_duration' = HasAnyDuration(f)
            /\ total_minutes' = TotalMinutes(f)
            /\ avg_minutes' = AvgMinutes(f)
            /\ active_workflows' = ActiveWorkflows(f)
            /\ active_branches' = ActiveBranches(f)
            /\ metrics' = Metrics(f)
            /\ runs_by_branch' = rb
            /\ daily' = Daily(f)
            /\ display_cols' = DisplayCols(cols \cup {"duration_minutes"})
            /\ table_df' = tb
            /\ shown' = Page(f, rb)
            /\ df' = RecordSetAfterRender(d, f)

\* the script, top to bottom.  sel_w and range_w are what the two widgets
\* hold: << >> when the user never touched the widget (it returns its
\* default), else << selection >> and << start, end >>.
Script(sel_w, range_w) ==
    LET path == FirstLoadable(disk, 1)
        cols == NormalizeColumns(csv.header)
        d    == LoadRecords(cols, csv.rows)
    IN  IF path = 0 THEN StopSourceUnavailable
        ELSE IF missing(cols) # << >> THEN StopSchemaInvalid(path, cols)
        ELSE IF d = << >> THEN CrashNoTimestamps(path, cols)
        ELSE LET sel == IF sel_w = << >> THEN WorkflowOptions(d) ELSE sel_w[1]
                 rg  == IF range_w = << >> THEN DefaultDateRange(d) ELSE range_w
             IN  \/ Render(path, cols, d, sel, rg[1], rg[2])
                 \/ /\ range_w = << >>
                    /\ default_start(d) < DateOf(min_dt(d))
                    /\ CrashDefaultOutOfRange(path, cols, d, sel)

\* ------------------------------------------------------------------------
\* Actions
\* ------------------------------------------------------------------------
\* the page is opened: the first run, both widgets at their defaults
Open ==
    /\ pc = "start"
    /\ Script(<< >>, << >>)
    /\ UNCHANGED inputs

\* the user changes the workflow multiselect
SelectWorkflows(sel) ==
    /\ pc = "done"
    /\ sel \subseteq workflows
    /\ sel # selected_workflows
    /\ Script(<< sel >>, << start_date, end_date >>)
    /\ UNCHANGED inputs

\* the user picks another date range
PickDateRange(start, end) ==
    /\ pc = "done"
    /\ << start, end >> \in DateRanges(df)
    /\ << start, end >> # << start_date, end_date >>
    /\ Script(<< selected_workflows >>, << start, end >>)
    /\ UNCHANGED inputs

Next ==
    \/ Open
    \/ \E sel \in SUBSET workflows : SelectWorkflows(sel)
    \/ \E rg \in DateRanges(df) : PickDateRange(rg[1], rg[2])

Spec == Init /\ [][Next]_vars

\* ------------------------------------------------------------------------
\* Properties
\* ------------------------------------------------------------------------
\* what the claims speak of, stated on the file and on the record set
InDateRange(r, start, end) ==
    /\ start * TicksPerDay + Midnight <= r.timestamp.val
    /\ r.timestamp.val <= end * TicksPerDay + LastMicrosecond

NotApplicable ==
    /\ total_minutes.na
    /\ avg_minutes.na
    /\ metrics.total_minutes.label = "N/A"
    /\ metrics.avg_minutes.label = "N/A"

ZeroKPIs ==
    /\ total_runs = 0
    /\ active_workflows = 0
    /\ active_branches = 0
    /\ NotApplicable

\* the elements that come after the two st.stop() calls
Downstream ==
    { "workflow_select", "date_input", "metrics", "pie", "info_no_data",
      "warning_no_runs", "line", "table", "info_no_rows", "tips" }

SumOf(s, F(_)) ==
    LET sum[i \in 0..Len(s)] == IF i = 0 THEN 0 ELSE sum[i - 1] + F(s[i])
    IN  sum[Len(s)]

Count(s, P(_)) == Cardinality({ i \in DOMAIN s : P(s[i]) })

\* C1 (as stated): whenever the selected-workflow set is empty (every
\* workflow of the multiselect deselected), the filtered subset is empty,
\* total_runs, active_workflows and active_branches are 0 and
\* total_minutes / avg_minutes are not applicable.
C1_EmptySelectionMatchesNothing ==
    (pc = "done" /\ workflows # {} /\ selected_workflows = {}) =>
        (filtered = << >> /\ ZeroKPIs)

\* C1 (amended): whenever the selected-workflow set is empty, no workflow
\* filter is applied: the filtered subset is exactly the records inside the
\* date range, whatever their workflow; and whenever the filtered subset is
\* empty, total_runs, active_workflows and active_branches are 0 and
\* total_minutes / avg_minutes are not applicable.
C1_EmptySelectionMatchesAll ==
    pc = "done" =>
        /\ selected_workflows = {} =>
              filtered = SelectSeq(df, LAMBDA r :
                             InDateRange(r, start_date, end_date))
        /\ filtered = << >> => ZeroKPIs

C1_Witness ==
    /\ pc = "done"
    /\ workflows # {}
    /\ selected_workflows = {}
    /\ Len(filtered) >= 2
    /\ total_runs = Len(filtered)
    /\ \E i \in DOMAIN filtered : filtered[i].workflow = NA

\* C2: with a non-empty selected-workflow set, the filtered subset is
\* exactly the records whose timestamp t has start 00:00:00 <= t <= end
\* 23:59:59.999999 and whose workflow is selected: none left out, no other
\* included.
C2_FilterExact ==
    (pc = "done" /\ selected_workflows # {}) =>
        filtered = SelectSeq(df, LAMBDA r :
                       /\ InDateRange(r, start_date, end_date)
                       /\ r.workflow \in selected_workflows)

C2_Witness ==
    /\ pc = "done"
    /\ selected_workflows # {}
    /\ \E i \in DOMAIN filtered :
          filtered[i].timestamp.val = end_date * TicksPerDay + LastMicrosecond
    /\ \E i \in DOMAIN df :
          /\ DateOf(df[i].timestamp.val) = end_date
          /\ TickOf(df[i].timestamp.val) > LastMicrosecond
          /\ df[i].workflow \in selected_workflows
    /\ \E i \in DOMAIN df :
          /\ InDateRange(df[i], start_date, end_date)
          /\ df[i].workflow \notin selected_workflows

\* the rows of the file whose timestamp parses
Parseable == SelectSeq(csv.rows, LAMBDA r : r.timestamp.kind = "datetime")

\* C3 (as stated): every row of the record set has a valid timestamp, a
\* non-null workflow and a non-null branch; the rows whose timestamp does
\* not parse are not in the record set and are counted nowhere downstream.
C3_SurvivorsComplete ==
    pc = "done" =>
        /\ \A i \in DOMAIN df :
              /\ ~df[i].timestamp.na
              /\ df[i].workflow # NA
              /\ df[i].branch # NA
        /\ Len(df) = Len(Parseable)
        /\ total_runs <= Len(Parseable)

\* C3 (amended): every row of the record set has a valid timestamp, while
\* its workflow and its branch may be null; the record set is the rows of
\* the file whose timestamp parses, in the file's order, so the rows whose
\* timestamp does not parse are counted nowhere downstream (total_runs, the
\* denominator of the average, the branch counts and the daily counts).
C3_SurvivorsHaveTimestamp ==
    pc = "done" =>
        /\ \A i \in DOMAIN df : ~df[i].timestamp.na
        /\ Len(df) = Len(Parseable)
        /\ \A i \in DOMAIN df :
              /\ df[i].timestamp = ToDatetime(Parseable[i].timestamp)
              /\ df[i].workflow = ReadText(Parseable[i].workflow)
              /\ df[i].branch = ReadText(Parseable[i].branch)
        /\ total_runs <= Len(Parseable)
        /\ Count(filtered, LAMBDA r : ~r.duration_minutes.na) <=
              Count(Parseable, LAMBDA r : ~ToNumeric(r.duration).na)
        /\ SumOf(runs_by_branch, LAMBDA g : g.runs) <= Len(Parseable)
        /\ SumOf(daily, LAMBDA b : b.runs) <= Len(Parseable)

C3_Witness ==
    /\ pc = "done"
    /\ Len(df) < Len(csv.rows)
    /\ \E i \in DOMAIN df : df[i].workflow = NA
    /\ \E i \in DOMAIN df : df[i].branch = NA
    /\ total_runs = Len(df)

\* the required columns the file does not have, under trim + lower-case
AbsentRequired ==
    { c \in { "timestamp", "workflow", "branch" } :
        \A h \in csv.header : StripLower(h) # c }

\* C4: if no candidate file can be loaded, or a required column is absent
\* after normalisation of the column names, the run ends with an error
\* message (naming exactly the missing required columns in the schema case)
\* and nothing downstream of the error is on the page.
C4_BlockingErrors ==
    pc # "start" =>
        /\ (\A i \in DOMAIN disk : disk[i] # "ok") =>
              /\ pc = "source_unavailable"
              /\ error.message = "CSV not found"
              /\ "error" \in shown
              /\ shown \cap Downstream = {}
        /\ ((\E i \in DOMAIN disk : disk[i] = "ok") /\ AbsentRequired # {}) =>
              /\ pc = "schema_invalid"
              /\ error.message = "Missing required column(s)"
              /\ Range(error.columns) = AbsentRequired
              /\ Len(error.columns) = Cardinality(AbsentRequired)
              /\ "error" \in shown
              /\ shown \cap Downstream = {}

C4_Witness ==
    /\ pc = "schema_invalid"
    /\ disk = << "unreadable", "ok" >>
    /\ used_path = 2
    /\ error.columns = << "timestamp", "branch" >>
    /\ "WORKFLOW" \in csv.header
    /\ shown = { "title", "caption", "error" }

\* C5: for a non-empty filtered subset, the counts of the daily series sum
\* to total_runs, the number of rows of the filtered subset.
C5_DailySumsToTotalRuns ==
    (pc = "done" /\ filtered # << >>) =>
        /\ SumOf(daily, LAMBDA b : b.runs) = total_runs
        /\ total_runs = Len(filtered)

C5_Witness ==
    /\ pc = "done"
    /\ total_runs = 2
    /\ Len(daily) = 3
    /\ total_runs < Len(df)

\* C6: for a non-empty filtered subset, the daily series is in
\* chronological order with exactly one entry for every calendar day from
\* the day of the earliest timestamp to the day of the latest; each count
\* is the number of rows of that day, 0 for a day without rows.
C6_DailySeriesCoversEveryDay ==
    (pc = "done" /\ filtered # << >>) =>
        LET days == { DateOf(filtered[i].timestamp.val) : i \in DOMAIN filtered }
        IN  /\ \A i, j \in DOMAIN daily : i < j => daily[i].date < daily[j].date
            /\ { daily[i].date : i \in DOMAIN daily } = MinOf(days)..MaxOf(days)
            /\ \A i \in DOMAIN daily :
                  daily[i].runs =
                      Count(filtered, LAMBDA r :
                                DateOf(r.timestamp.val) = daily[i].date)

C6_Witness ==
    /\ pc = "done"
    /\ Len(daily) = 3
    /\ daily[1].runs = 2
    /\ daily[2].runs = 0
    /\ daily[3].runs = 1

\* the branch distribution as the claim words it: the branches of the
\* subset, each once with its row count, in descending order of count,
\* each share within 0.05 of its exact value, the shares summing to 100.0
\* within 0.05 per branch (shares are in tenths of a percent here)
BranchDistributionOK ==
    LET n      == Len(runs_by_branch)
        total  == Count(filtered, LAMBDA r : r.branch # NA)
        tenths == SumOf(runs_by_branch, LAMBDA g : g.percentage[1])
    IN  /\ { runs_by_branch[i].branch : i \in 1..n } =
              { filtered[i].branch : i \in DOMAIN filtered } \ {NA}
        /\ \A i, j \in 1..n :
              i # j => runs_by_branch[i].branch # runs_by_branch[j].branch
        /\ \A i \in 1..n :
              /\ runs_by_branch[i].runs =
                    Count(filtered, LAMBDA r : r.branch = runs_by_branch[i].branch)
              /\ runs_by_branch[i].percentage[2] = 10
              /\ 2 * Abs(runs_by_branch[i].percentage[1] * total
                         - runs_by_branch[i].runs * 1000) <= total
        /\ \A i, j \in 1..n :
              i < j => runs_by_branch[i].runs >= runs_by_branch[j].runs
        /\ 2 * Abs(tenths - 1000) <= n

\* C7 (as stated): for every non-empty filtered subset the branch
\* distribution lists the branches in descending order of row count and the
\* rounded percentage shares sum to 100.0 within 0.05 per branch.
C7_PercentagesSumForNonEmpty ==
    (pc = "done" /\ filtered # << >>) => BranchDistributionOK

\* C7 (amended): for every filtered subset with at least one row that has a
\* branch, the branch distribution lists the branches in descending order
\* of row count and the rounded percentage shares sum to 100.0 within 0.05
\* per branch; a non-empty subset none of whose rows has a branch gets the
\* "no runs to display" warning and no distribution.
C7_PercentagesSumWhenBranched ==
    pc = "done" =>
        /\ (\E i \in DOMAIN filtered : filtered[i].branch # NA) =>
              (BranchDistributionOK /\ "pie" \in shown)
        /\ (filtered # << >> /\ \A i \in DOMAIN filtered : filtered[i].branch = NA) =>
              (runs_by_branch = << >> /\ "warning_no_runs" \in shown)

C7_Witness ==
    /\ pc = "done"
    /\ Len(runs_by_branch) = 2
    /\ runs_by_branch[1].runs = 2
    /\ runs_by_branch[1].percentage = << 667, 10 >>
    /\ runs_by_branch[2].percentage = << 333, 10 >>

\* C8: if the source has no duration column then, for every filter spec,
\* has_duration is false and total_minutes and avg_minutes are reported as
\* N/A: they are neither numbers nor what makes a run fail.
C8_NoDurationColumn ==
    (pc \in {"done", "crashed"} /\ \A h \in csv.header : StripLower(h) # "duration") =>
        /\ ~has_any_duration
        /\ total_minutes.na
        /\ avg_minutes.na
        /\ pc = "done" => NotApplicable
        /\ pc = "crashed" => "metrics" \notin shown

C8_Witness ==
    /\ pc = "done"
    /\ "Duration" \notin csv.header
    /\ total_runs >= 2
    /\ selected_workflows # workflows
    /\ metrics.total_minutes.label = "N/A"

\* C9: has_duration is true iff some row of the filtered subset has a
\* non-null duration; then total_minutes is the sum of duration/60 over the
\* rows with a duration and avg_minutes is that sum divided by the number
\* of rows with a duration (rows without one count in total_runs only).
C9_DurationKPIs ==
    pc = "done" =>
        LET withDuration == SelectSeq(filtered, LAMBDA r : ~r.duration.na)
            seconds      == SumOf(withDuration, LAMBDA r : r.duration.val)
        IN  /\ has_any_duration <=> withDuration # << >>
            /\ total_runs = Len(filtered)
            /\ has_any_duration =>
                  /\ ~total_minutes.na
                  /\ ~avg_minutes.na
                  /\ RatEq(total_minutes.val, << seconds, SecondsPerMinute >>)
                  /\ RatEq(avg_minutes.val,
                           << seconds, SecondsPerMinute * Len(withDuration) >>)
            /\ ~has_any_duration => (total_minutes.na /\ avg_minutes.na)

C9_Witness ==
    /\ pc = "done"
    /\ has_any_duration
    /\ total_runs = 3
    /\ Count(filtered, LAMBDA r : r.duration.na) = 1
    /\ RatEq(total_minutes.val, << 165, 60 >>)
    /\ RatEq(avg_minutes.val, << 165, 120 >>)

====
